---- MODULE Spec2Model ----
(***************************************************************************)
(* The verification rules engine of VERIDICT (src/backend/rules_engine.py) *)
(* as a state machine: the Rule Set held by a RulesEngine, load_rules /     *)
(* reload_rules, and evaluate_rules with the condition evaluator and the   *)
(* namespace builder it calls.                                              *)
(*                                                                         *)
(* Python values are tagged records.  Numbers are exact rationals n/den    *)
(* (den > 0); binary floating-point rounding is not modelled.  A mapping   *)
(* held by the context is an object: the namespace refers to it by its     *)
(* path in the context, so a mutation made while a condition is evaluated  *)
(* is seen by everything that refers to the same mapping.                  *)
(***************************************************************************)
EXTENDS Integers, Sequences, FiniteSets, TLC

---------------------------------------------------------------------------
(* Python values *)

PyNone == [t |-> "none"]
PyBool(b) == [t |-> "bool", b |-> b]
Frac(n, den) == [t |-> "num", n |-> n, den |-> den]
Num(n) == Frac(n, 1)
PyDict(items) == [t |-> "dict", items |-> items]
\* DotDict(data), data being the object at `path` of the context
DotDictRef(path) == [t |-> "dotdict", path |-> path]
\* the mapping object at `path` of the context, unwrapped
DictRef(path) == [t |-> "dictref", path |-> path]
\* the bound method `name` of the mapping object at `path`
BoundMethod(path, name) == [t |-> "method", path |-> path, name |-> name]

IsNumeric(v) == v.t \in {"num", "bool"}
\* bool is a subclass of int: True is 1 and False is 0 in arithmetic
NumerOf(v) == IF v.t = "bool" THEN (IF v.b THEN 1 ELSE 0) ELSE v.n
DenomOf(v) == IF v.t = "bool" THEN 1 ELSE v.den

Abs(x) == IF x < 0 THEN -x ELSE x

\* the value a context holds at a path (None when the path is gone)
RECURSIVE Deref(_, _)
Deref(items, path) ==
  IF path = <<>> THEN PyDict(items)
  ELSE IF Head(path) \notin DOMAIN items THEN PyNone
  ELSE IF Len(path) = 1 THEN items[Head(path)]
  ELSE IF items[Head(path)].t # "dict" THEN PyNone
  ELSE Deref(items[Head(path)].items, Tail(path))

\* the context after <mapping at path>.clear()
RECURSIVE ClearAt(_, _)
ClearAt(items, path) ==
  IF path = <<>> THEN <<>>
  ELSE IF Head(path) \notin DOMAIN items THEN items
  ELSE IF items[Head(path)].t # "dict" THEN items
  ELSE [items EXCEPT ![Head(path)] =
          PyDict(ClearAt(items[Head(path)].items, Tail(path)))]

\* bool(v)
Truthy(v, ctx) ==
  CASE v.t = "none" -> FALSE
    [] v.t = "bool" -> v.b
    [] v.t = "num" -> v.n # 0
    [] v.t = "dictref" ->
         LET o == Deref(ctx, v.path) IN o.t = "dict" /\ DOMAIN o.items # {}
    [] OTHER -> TRUE

---------------------------------------------------------------------------
(* Condition expressions: the Python expressions eval() is given.  Only    *)
(* the node kinds below are modelled; every operation on the values above  *)
(* that these nodes can perform is defined as Python defines it.           *)

Lit(v) == [k |-> "lit", v |-> v]
Name(id) == [k |-> "name", id |-> id]
Attr(e, a) == [k |-> "attr", e |-> e, a |-> a]
Cmp(op, l, r) == [k |-> "cmp", op |-> op, l |-> l, r |-> r]
Arith(op, l, r) == [k |-> "arith", op |-> op, l |-> l, r |-> r]
And(l, r) == [k |-> "and", l |-> l, r |-> r]
Or(l, r) == [k |-> "or", l |-> l, r |-> r]
Not(e) == [k |-> "not", e |-> e]
\* f() : a call without arguments
Call(f) == [k |-> "call", f |-> f]
\* (_ for _ in ()).throw(<BaseException, found through
\*  ().__class__.__base__.__subclasses__()>): raises BaseException
GenThrow == [k |-> "genthrow"]
\* text that compile() rejects
Malformed == [k |-> "malformed"]
\* -1 in <itertools.count(), found through
\*  ().__class__.__base__.__subclasses__()>: the membership test walks an
\* iterator that never ends
Spin == [k |-> "spin"]

\* the outcome of an evaluation that never returns
Hang == "<no return>"

Ok(v, ctx) == [exc |-> "", val |-> v, ctx |-> ctx]
Raise(name, ctx) == [exc |-> name, val |-> PyNone, ctx |-> ctx]

\* the methods of dict that the modelled conditions name
DictMethods == {"clear", "get"}

\* getattr(v, a)
GetAttr(v, a, ctx) ==
  CASE v.t = "dotdict" ->
         \* _data is an instance attribute; __getattr__ serves the rest
         IF a = "_data" THEN Ok(DictRef(v.path), ctx)
         ELSE LET data == Deref(ctx, v.path) IN
              IF data.t # "dict" THEN Raise("AttributeError", ctx)
              ELSE IF a \notin DOMAIN data.items THEN Ok(PyNone, ctx)
              ELSE IF data.items[a].t = "dict"
                   THEN Ok(DotDictRef(Append(v.path, a)), ctx)
              ELSE Ok(data.items[a], ctx)
    [] v.t = "dictref" ->
         IF Deref(ctx, v.path).t = "dict" /\ a \in DictMethods
         THEN Ok(BoundMethod(v.path, a), ctx)
         ELSE Raise("AttributeError", ctx)
    [] OTHER -> Raise("AttributeError", ctx)

\* v()
CallValue(v, ctx) ==
  IF v.t = "method" /\ v.name = "clear"
  THEN Ok(PyNone, ClearAt(ctx, v.path))
  ELSE Raise("TypeError", ctx)

\* l == r
PyEq(l, r, ctx) ==
  CASE IsNumeric(l) /\ IsNumeric(r) ->
         NumerOf(l) * DenomOf(r) = NumerOf(r) * DenomOf(l)
    [] l.t = "none" /\ r.t = "none" -> TRUE
    \* DotDict defines no __eq__: identity, and every nested lookup
    \* builds a new wrapper
    [] l.t = "dotdict" /\ r.t = "dotdict" ->
         l.path = r.path /\ Len(l.path) = 1
    [] l.t = "dictref" /\ r.t = "dictref" ->
         Deref(ctx, l.path) = Deref(ctx, r.path)
    [] l.t = "method" /\ r.t = "method" ->
         l.path = r.path /\ l.name = r.name
    [] OTHER -> FALSE

\* l op r for a comparison operator
Compare(op, l, r, ctx) ==
  IF op = "==" THEN Ok(PyBool(PyEq(l, r, ctx)), ctx)
  ELSE IF op = "!=" THEN Ok(PyBool(~PyEq(l, r, ctx)), ctx)
  ELSE IF ~(IsNumeric(l) /\ IsNumeric(r)) THEN Raise("TypeError", ctx)
  ELSE LET a == NumerOf(l) * DenomOf(r)
           b == NumerOf(r) * DenomOf(l)
       IN Ok(PyBool(CASE op = "<" -> a < b
                      [] op = "<=" -> a <= b
                      [] op = ">" -> a > b
                      [] op = ">=" -> a >= b), ctx)

\* l op r for an arithmetic operator
Arithmetic(op, l, r, ctx) ==
  IF ~(IsNumeric(l) /\ IsNumeric(r)) THEN Raise("TypeError", ctx)
  ELSE LET ln == NumerOf(l)
           ld == DenomOf(l)
           rn == NumerOf(r)
           rd == DenomOf(r)
       IN CASE op = "+" -> Ok(Frac(ln * rd + rn * ld, ld * rd), ctx)
            [] op = "-" -> Ok(Frac(ln * rd - rn * ld, ld * rd), ctx)
            [] op = "*" -> Ok(Frac(ln * rn, ld * rd), ctx)
            [] op = "/" ->
                 IF rn = 0 THEN Raise("ZeroDivisionError", ctx)
                 ELSE IF rn > 0 THEN Ok(Frac(ln * rd, ld * rn), ctx)
                 ELSE Ok(Frac(-(ln * rd), -(ld * rn)), ctx)

\* eval(e, {"__builtins__": {}}, ns): the value or the exception, and the
\* context as the evaluation leaves it
RECURSIVE Eval(_, _, _)
Eval(e, ns, ctx) ==
  CASE e.k = "lit" -> Ok(e.v, ctx)
    [] e.k = "name" ->
         IF e.id \in DOMAIN ns THEN Ok(ns[e.id], ctx)
         ELSE Raise("NameError", ctx)
    [] e.k = "attr" ->
         LET o == Eval(e.e, ns, ctx) IN
         IF o.exc # "" THEN o ELSE GetAttr(o.val, e.a, o.ctx)
    [] e.k = "call" ->
         LET f == Eval(e.f, ns, ctx) IN
         IF f.exc # "" THEN f ELSE CallValue(f.val, f.ctx)
    [] e.k \in {"cmp", "arith"} ->
         LET l == Eval(e.l, ns, ctx) IN
         IF l.exc # "" THEN l
         ELSE LET r == Eval(e.r, ns, l.ctx) IN
              IF r.exc # "" THEN r
              ELSE IF e.k = "cmp" THEN Compare(e.op, l.val, r.val, r.ctx)
              ELSE Arithmetic(e.op, l.val, r.val, r.ctx)
    [] e.k = "and" ->
         LET l == Eval(e.l, ns, ctx) IN
         IF l.exc # "" \/ ~Truthy(l.val, l.ctx) THEN l
         ELSE Eval(e.r, ns, l.ctx)
    [] e.k = "or" ->
         LET l == Eval(e.l, ns, ctx) IN
         IF l.exc # "" \/ Truthy(l.val, l.ctx) THEN l
         ELSE Eval(e.r, ns, l.ctx)
    [] e.k = "not" ->
         LET o == Eval(e.e, ns, ctx) IN
         IF o.exc # "" THEN o ELSE Ok(PyBool(~Truthy(o.val, o.ctx)), o.ctx)
    [] e.k = "genthrow" -> Raise("BaseException", ctx)
    [] e.k = "spin" -> Raise(Hang, ctx)
    [] e.k = "malformed" -> Raise("SyntaxError", ctx)

---------------------------------------------------------------------------
(* Condition text.  A condition is a str, given here as its sequence of    *)
(* tokens (blanks included), or another YAML value (bool, null).           *)

Text(toks) == [t |-> "str", toks |-> toks]

IsSpace(tok) == tok = " "

\* str.strip()
RECURSIVE LStrip(_)
LStrip(toks) ==
  IF toks # <<>> /\ IsSpace(Head(toks)) THEN LStrip(Tail(toks)) ELSE toks

RECURSIVE RStrip(_)
RStrip(toks) ==
  IF toks # <<>> /\ IsSpace(toks[Len(toks)])
  THEN RStrip(SubSeq(toks, 1, Len(toks) - 1)) ELSE toks

Strip(toks) == RStrip(LStrip(toks))

\* str.lower() of one token: the tokens of the modelled conditions that
\* hold capital letters
LowerTok(tok) ==
  CASE tok \in {"True", "TRUE"} -> "true"
    [] tok \in {"False", "FALSE"} -> "false"
    [] tok = "None" -> "none"
    [] OTHER -> tok

\* str.lower()
Lower(toks) == [i \in 1..Len(toks) |-> LowerTok(toks[i])]

GenThrowText == <<"(_ for _ in ()).throw(BaseException)">>

SpinText == <<"-1 in itertools.count()">>

\* "(" * 1000 + "1" + ")" * 1000
DeepNestingText == <<"(*1000", "1", ")*1000">>

\* compile(text, "<string>", "eval") for the modelled condition texts;
\* any other text is malformed
Parse(toks) ==
  CASE toks = <<"ftso_price_diff_pct", " ", "<=", " ", "2.0">> ->
         Cmp("<=", Name("ftso_price_diff_pct"), Lit(Num(2)))
    [] toks = <<"1", "/", "0", " ", ">", " ", "1">> ->
         Cmp(">", Arith("/", Lit(Num(1)), Lit(Num(0))), Lit(Num(1)))
    [] toks = <<"market_data", ".", "price", " ", ">", " ", "0">> ->
         Cmp(">", Attr(Name("market_data"), "price"), Lit(Num(0)))
    [] toks = <<"market_data", ".", "_data", ".", "clear", "(", ")">> ->
         Call(Attr(Attr(Name("market_data"), "_data"), "clear"))
    [] toks = <<"not", " ", "market_data", ".", "price">> ->
         Not(Attr(Name("market_data"), "price"))
    [] toks = GenThrowText -> GenThrow
    [] toks = SpinText -> Spin
    \* SyntaxError: too many nested parentheses
    [] toks = DeepNestingText -> Malformed
    [] toks = <<"x", " ", "!=", " ", "5">> ->
         Cmp("!=", Name("x"), Lit(Num(5)))
    [] toks = <<"x", " ", "==", " ", "null">> ->
         Cmp("==", Name("x"), Name("null"))
    [] toks = <<"not", " ", "x">> -> Not(Name("x"))
    [] toks = <<"market_data", ".", "a", " ", "==", " ", "null">> ->
         Cmp("==", Attr(Name("market_data"), "a"), Name("null"))
    [] toks = <<"market_data", ".", "a", ".", "b", " ", "==", " ", "null">> ->
         Cmp("==", Attr(Attr(Name("market_data"), "a"), "b"), Name("null"))
    [] toks = <<"_tampered">> -> Name("_tampered")
    [] toks = <<"true">> -> Name("true")
    [] toks = <<"false">> -> Name("false")
    [] toks = <<"True">> -> Lit(PyBool(TRUE))
    [] toks = <<"False">> -> Lit(PyBool(FALSE))
    [] toks = <<"TRUE">> -> Name("TRUE")
    [] toks = <<"FALSE">> -> Name("FALSE")
    [] OTHER -> Malformed

---------------------------------------------------------------------------
(* Rule and the namespace builder *)

Get(d, key, default) == IF key \in DOMAIN d THEN d[key] ELSE default

\* Rule.__init__(rule_dict); rule_dict is the mapping's items
Rule(rule_dict) ==
  [name |-> Get(rule_dict, "name", "Unnamed Rule"),
   type |-> Get(rule_dict, "type", "unknown"),
   condition |-> Get(rule_dict, "condition", Text(<<"true">>)),
   action |-> Get(rule_dict, "action", "warn"),
   severity |-> Get(rule_dict, "severity", "medium"),
   message |-> Get(rule_dict, "message", "Rule failed"),
   description |-> Get(rule_dict, "description", "")]

\* key.startswith('_'), for the keys of the modelled contexts
StartsWithUnderscore(key) == key \in {"_tampered", "_attack_info"}

\* the keys whose value is wrapped in a DotDict
WrappedKeys == {"market_data", "sentiment_data", "leverage_suggestion"}

Literals ==
  [true |-> PyBool(TRUE), True |-> PyBool(TRUE), false |-> PyBool(FALSE),
   False |-> PyBool(FALSE), null |-> PyNone, None |-> PyNone]

\* Percentage with the deviation taken relative to the oracle price
PercentageOfOracle(diff, declared_price, ctx) ==
  IF diff.exc # "" THEN [exc |-> diff.exc, ns |-> <<>>]
  ELSE [exc |-> "",
        ns |-> [ftso_price_diff_pct |->
                  Arithmetic("*",
                    Arithmetic("/", Frac(Abs(diff.val.n), diff.val.den),
                               ctx["ftso_price"], ctx).val,
                    Num(100), ctx).val]]

\* line 298: abs(ftso_price - declared_price) / declared_price * 100,
\* diff being the outcome of the subtraction
Percentage(diff, declared_price, ctx) ==
  IF diff.exc # "" THEN [exc |-> diff.exc, ns |-> <<>>]
  ELSE [exc |-> "",
        ns |-> [ftso_price_diff_pct |->
                  Arithmetic("*",
                    Arithmetic("/", Frac(Abs(diff.val.n), diff.val.den),
                               declared_price, ctx).val,
                    Num(100), ctx).val]]

\* DiffBinding with 0 bound for a declared price that is not positive
DiffBindingSentinelZero(positive, ftso_price, declared_price, ctx) ==
  IF positive.exc # "" THEN [exc |-> positive.exc, ns |-> <<>>]
  ELSE IF ~positive.val.b
  THEN [exc |-> "", ns |-> [ftso_price_diff_pct |-> Num(0)]]
  ELSE Percentage(Arithmetic("-", ftso_price, declared_price, ctx),
                  declared_price, ctx)

\* lines 297-301, positive being the outcome of declared_price > 0
DiffBinding(positive, ftso_price, declared_price, ctx) ==
  IF positive.exc # "" THEN [exc |-> positive.exc, ns |-> <<>>]
  ELSE IF ~positive.val.b
  THEN [exc |-> "", ns |-> [ftso_price_diff_pct |-> Num(100)]]
  ELSE Percentage(Arithmetic("-", ftso_price, declared_price, ctx),
                  declared_price, ctx)

\* PriceDiff with no binding when market_data has no price key
PriceDiffNeedsPrice(ctx) ==
  IF ~("ftso_price" \in DOMAIN ctx /\ "market_data" \in DOMAIN ctx)
  THEN [exc |-> "", ns |-> <<>>]
  ELSE IF ctx["market_data"].t # "dict"
  THEN [exc |-> "AttributeError", ns |-> <<>>]
  ELSE IF "price" \notin DOMAIN ctx["market_data"].items
  THEN [exc |-> "", ns |-> <<>>]
  ELSE DiffBinding(
         Compare(">", ctx["market_data"].items["price"], Num(0), ctx),
         ctx["ftso_price"], ctx["market_data"].items["price"], ctx)

\* lines 293-301: the ftso_price_diff_pct binding (none when a key is
\* absent), or the exception the computation raises
PriceDiff(ctx) ==
  IF ~("ftso_price" \in DOMAIN ctx /\ "market_data" \in DOMAIN ctx)
  THEN [exc |-> "", ns |-> <<>>]
  ELSE IF ctx["market_data"].t # "dict"
  THEN [exc |-> "AttributeError", ns |-> <<>>]
  ELSE DiffBinding(
         Compare(">", Get(ctx["market_data"].items, "price", Num(0)),
                 Num(0), ctx),
         ctx["ftso_price"],
         Get(ctx["market_data"].items, "price", Num(0)), ctx)

\* Bindings without the test of line 279
BindingsWithMarkers(diff, ctx) ==
  IF diff.exc # "" THEN [exc |-> diff.exc, ns |-> <<>>]
  ELSE [exc |-> "",
        ns |-> Literals @@ diff.ns
               @@ [key \in WrappedKeys \cap DOMAIN ctx |-> DotDictRef(<<key>>)]
               @@ [key \in DOMAIN ctx |->
                     IF ctx[key].t = "dict" THEN DictRef(<<key>>)
                     ELSE ctx[key]]]

\* lines 275-290 and 303-309 around the binding diff of lines 293-301
Bindings(diff, ctx) ==
  IF diff.exc # "" THEN [exc |-> diff.exc, ns |-> <<>>]
  ELSE [exc |-> "",
        ns |-> Literals @@ diff.ns
               @@ [key \in WrappedKeys \cap DOMAIN ctx |-> DotDictRef(<<key>>)]
               @@ [key \in {k \in DOMAIN ctx : ~StartsWithUnderscore(k)} |->
                     IF ctx[key].t = "dict" THEN DictRef(<<key>>)
                     ELSE ctx[key]]]

\* _build_namespace(context): the namespace, or the exception raised
BuildNamespace(ctx) == Bindings(PriceDiff(ctx), ctx)

---------------------------------------------------------------------------
(* The condition evaluator and evaluate_rules *)

\* the error of a result that carries none
NoError == "<null>"

\* what `except Exception` catches
IsException(exc) == exc \notin {"", "BaseException", Hang}

\* lines 245-252: the result of eval() turned into the boolean returned;
\* an Exception gives False, anything else goes on
Guarded(r) ==
  IF r.exc = "" THEN [exc |-> "", val |-> Truthy(r.val, r.ctx), ctx |-> r.ctx]
  ELSE IF IsException(r.exc) THEN [exc |-> "", val |-> FALSE, ctx |-> r.ctx]
  ELSE [exc |-> r.exc, val |-> FALSE, ctx |-> r.ctx]

\* lines 236-252, text being condition.strip()
Decide(text, ns, ctx) ==
  IF Lower(text) = <<"true">> THEN [exc |-> "", val |-> TRUE, ctx |-> ctx]
  ELSE IF Lower(text) = <<"false">>
  THEN [exc |-> "", val |-> FALSE, ctx |-> ctx]
  ELSE Guarded(Eval(Parse(text), ns, ctx))

\* lines 233-252, built being the outcome of _build_namespace
WithNamespace(built, condition, ctx) ==
  IF built.exc # "" THEN [exc |-> built.exc, val |-> FALSE, ctx |-> ctx]
  ELSE IF condition.t # "str"
  THEN [exc |-> "AttributeError", val |-> FALSE, ctx |-> ctx]
  ELSE Decide(Strip(condition.toks), built.ns, ctx)

\* _evaluate_condition(condition, context): the boolean returned or the
\* exception that leaves the method, and the context afterwards
EvaluateCondition(condition, ctx) ==
  WithNamespace(BuildNamespace(ctx), condition, ctx)

\* lines 208-219, r being the outcome of _evaluate_condition
RuleOutcome(r) ==
  IF r.exc = ""
  THEN [exc |-> "", passed |-> r.val, error |-> NoError, ctx |-> r.ctx]
  ELSE IF IsException(r.exc)
  THEN [exc |-> "", passed |-> FALSE, error |-> r.exc, ctx |-> r.ctx]
  ELSE [exc |-> r.exc, passed |-> FALSE, error |-> NoError, ctx |-> r.ctx]

\* _evaluate_rule(rule, context): the RuleEvaluationResult, or the
\* exception that leaves the method
EvaluateRule(rule, ctx) == RuleOutcome(EvaluateCondition(rule.condition, ctx))

\* RuleEvaluationResult.to_dict()
ToDict(rule, passed, error) ==
  [rule_name |-> rule.name, type |-> rule.type, passed |-> passed,
   action |-> rule.action, severity |-> rule.severity,
   message |-> IF passed THEN NoError ELSE rule.message, error |-> error]

\* lines 139-143: the locals of evaluate_rules before the loop
StartEval(ctx) ==
  [results |-> <<>>, passed_count |-> 0, failed_count |-> 0,
   critical_failures |-> 0, should_block |-> FALSE, ctx |-> ctx, exc |-> ""]

\* OnFailure with should_block set inside the severity test
OnFailureBlockIfSevere(acc, rule) ==
  IF rule.action = "reject" /\ rule.severity \in {"critical", "high"}
  THEN [acc EXCEPT !.should_block = TRUE, !.critical_failures = @ + 1]
  ELSE acc

\* OnFailure with the severity test outside the action test
OnFailureCountAnyAction(acc, rule) ==
  [acc EXCEPT !.should_block = @ \/ rule.action = "reject",
              !.critical_failures =
                 IF rule.severity \in {"critical", "high"} THEN @ + 1 ELSE @]

\* OnFailure with a failing warn rule blocking as well
OnFailureWarnBlocks(acc, rule) ==
  IF rule.action \in {"reject", "warn"}
  THEN [acc EXCEPT !.should_block = TRUE,
                   !.critical_failures =
                      IF rule.severity \in {"critical", "high"}
                      THEN @ + 1 ELSE @]
  ELSE acc

\* lines 157-160: the effect of a failed rule on should_block and
\* critical_failures
OnFailure(acc, rule) ==
  IF rule.action = "reject"
  THEN [acc EXCEPT !.should_block = TRUE,
                   !.critical_failures =
                      IF rule.severity \in {"critical", "high"}
                      THEN @ + 1 ELSE @]
  ELSE acc

\* Record with the result of a rule that passed counted but not kept
RecordFailuresOnly(acc, rule, passed, error) ==
  IF passed
  THEN [acc EXCEPT !.passed_count = @ + 1]
  ELSE OnFailure([acc EXCEPT !.results = Append(@, ToDict(rule, passed, error)),
                             !.failed_count = @ + 1], rule)

\* lines 149-160: the result is recorded and counted
Record(acc, rule, passed, error) ==
  IF passed
  THEN [acc EXCEPT !.results = Append(@, ToDict(rule, passed, error)),
                   !.passed_count = @ + 1]
  ELSE OnFailure([acc EXCEPT !.results = Append(@, ToDict(rule, passed, error)),
                             !.failed_count = @ + 1], rule)

\* lines 147-174, r being the outcome of _evaluate_rule
Account(acc, rule, r) ==
  IF r.exc = ""
  THEN Record([acc EXCEPT !.ctx = r.ctx], rule, r.passed, r.error)
  ELSE IF IsException(r.exc)
  \* lines 162-174; _evaluate_rule lets no Exception out, so this is dead
  THEN [acc EXCEPT !.ctx = r.ctx,
                   !.results = Append(@, ToDict(rule, FALSE, r.exc)),
                   !.failed_count = @ + 1]
  ELSE [acc EXCEPT !.ctx = r.ctx, !.exc = r.exc]

\* lines 147-174: one iteration of the loop over the rules
EvalStep(acc, rule) == Account(acc, rule, EvaluateRule(rule, acc.ctx))

\* OverallStatus with should_block tested before critical_failures
OverallStatusBlockedFirst(acc) ==
  IF acc.should_block THEN "blocked"
  ELSE IF acc.critical_failures > 0 THEN "critical_failure"
  ELSE IF acc.failed_count > 0 THEN "warnings"
  ELSE "passed"

\* lines 176-184
OverallStatus(acc) ==
  IF acc.critical_failures > 0 THEN "critical_failure"
  ELSE IF acc.should_block THEN "blocked"
  ELSE IF acc.failed_count > 0 THEN "warnings"
  ELSE "passed"

\* lines 129-137: the verdict for an empty Rule Set
NoRulesVerdict ==
  [rules_evaluated |-> 0, rules_passed |-> 0, rules_failed |-> 0,
   critical_failures |-> 0, overall_status |-> "no_rules",
   should_block |-> FALSE, results |-> <<>>]

\* lines 186-195: the verdict returned after the loop; n is len(self.rules)
\* as read by the return statement
Verdict(acc, n) ==
  [rules_evaluated |-> n, rules_passed |-> acc.passed_count,
   rules_failed |-> acc.failed_count,
   critical_failures |-> acc.critical_failures,
   overall_status |-> OverallStatus(acc),
   should_block |-> acc.should_block, results |-> acc.results]

\* the loop over a list that does not change meanwhile
RECURSIVE EvalLoop(_, _)
EvalLoop(acc, rs) ==
  IF rs = <<>> \/ acc.exc # "" THEN acc
  ELSE EvalLoop(EvalStep(acc, Head(rs)), Tail(rs))

\* lines 186-195 after the loop left acc, for a Rule Set of n rules
Returned(acc, n) ==
  [exc |-> acc.exc, verdict |-> Verdict(acc, n), ctx |-> acc.ctx]

\* EvaluateRules without the test of lines 127-137
EvaluateRulesNoEmptyTest(rs, ctx) ==
  Returned(EvalLoop(StartEval(ctx), rs), Len(rs))

\* evaluate_rules(context) on an engine whose Rule Set rs no reload touches:
\* the verdict (or the exception that reaches the caller) and the context
\* as the call leaves it
EvaluateRules(rs, ctx) ==
  IF rs = <<>> THEN [exc |-> "", verdict |-> NoRulesVerdict, ctx |-> ctx]
  ELSE Returned(EvalLoop(StartEval(ctx), rs), Len(rs))

\* Rule.to_dict()
RuleToDict(rule) ==
  [name |-> rule.name, type |-> rule.type, condition |-> rule.condition,
   action |-> rule.action, severity |-> rule.severity,
   message |-> rule.message, description |-> rule.description]

\* _count_by_attribute(attribute) over the Rule Set rs
CountByAttribute(rs, attribute) ==
  [value \in {rs[i][attribute] : i \in 1..Len(rs)} |->
     Cardinality({i \in 1..Len(rs) : rs[i][attribute] = value})]

\* get_rules_summary() on an engine whose Rule Set is rs
RulesSummary(rs) ==
  [total_rules |-> Len(rs),
   rules_by_type |-> CountByAttribute(rs, "type"),
   rules_by_severity |-> CountByAttribute(rs, "severity"),
   rules_by_action |-> CountByAttribute(rs, "action"),
   rules |-> [i \in 1..Len(rs) |-> RuleToDict(rs[i])]]

---------------------------------------------------------------------------
(* Inputs: rule entries, rule sources and contexts *)

PyList(elems) == [t |-> "list", elems |-> elems]

Entry(name, toks, action, severity) ==
  PyDict([name |-> name, type |-> "check", condition |-> Text(toks),
          action |-> action, severity |-> severity])

PriceCheckText == <<"ftso_price_diff_pct", " ", "<=", " ", "2.0">>
PricePositiveText == <<"market_data", ".", "price", " ", ">", " ", "0">>
NoPriceText == <<"not", " ", "market_data", ".", "price">>
DivZeroText == <<"1", "/", "0", " ", ">", " ", "1">>
ClearText == <<"market_data", ".", "_data", ".", "clear", "(", ")">>

\* the entries a rule source is made of
RuleEntries ==
  << Entry("price_check", PriceCheckText, "reject", "critical"),
     Entry("price_positive", PricePositiveText, "reject", "high"),
     Entry("no_price", NoPriceText, "reject", "medium"),
     Entry("div_zero", DivZeroText, "reject", "low"),
     Entry("diff_warn", PriceCheckText, "warn", "critical"),
     Entry("positive_warn", PricePositiveText, "warn", "medium"),
     Entry("always", <<" ", "True", " ">>, "warn", "high"),
     Entry("never", <<"FALSE">>, "log", "low"),
     Entry("upper", <<"TRUE">>, "reject", "critical"),
     Entry("broken", <<"1", " ", "+">>, "log", "high"),
     Entry("wipe", ClearText, "log", "low"),
     Entry("throw", GenThrowText, "warn", "low"),
     \* condition: true, unquoted in the YAML; no action, no severity
     PyDict([name |-> "yaml_bool", condition |-> PyBool(TRUE)]),
     \* neither condition nor action nor severity
     PyDict([name |-> "bare"]),
     Entry("spin", SpinText, "warn", "low"),
     Entry("deep", DeepNestingText, "reject", "medium") >>

\* the length of the longest enumerated Rule Set
MaxRules == 2

\* the enumerated Rule Sets, as sequences of indices into RuleEntries
RuleSetIndices == UNION {[1..n -> 1..Len(RuleEntries)] : n \in 0..MaxRules}

RulesOf(idx) == [i \in 1..Len(idx) |-> Rule(RuleEntries[idx[i]].items)]

Md(items) == PyDict(items)

\* the contexts evaluate_rules is called with
Contexts ==
  << [ftso_price |-> Num(100), market_data |-> Md([price |-> Num(102)])],
     [ftso_price |-> Num(100), market_data |-> Md([price |-> Num(105)])],
     [ftso_price |-> Num(100), market_data |-> Md([price |-> Num(0)])],
     [market_data |-> Md(<<>>)],
     [ftso_price |-> Num(100), market_data |-> Md([price |-> PyNone])],
     [ftso_price |-> Num(100), market_data |-> PyNone],
     <<>>,
     [market_data |-> Md([price |-> Num(105)]),
      ftso_price_diff_pct |-> Num(0), _tampered |-> PyBool(TRUE)],
     [ftso_price |-> Num(100), market_data |-> Md([volume |-> Num(7)])],
     [ftso_price |-> Num(100), market_data |-> Md([price |-> Num(-5)])],
     [ftso_price |-> Num(100), market_data |-> Md([price |-> Num(80)]),
      ftso_price_diff_pct |-> Num(0)],
     [ftso_price |-> Frac(201, 2), market_data |-> Md([price |-> Frac(5, 2)])],
     [ftso_price |-> Num(100), market_data |-> Md([price |-> Num(102)]),
      sentiment_data |-> Md([score |-> Num(1)]), timestamp |-> Num(5),
      _tampered |-> PyBool(TRUE),
      _attack_info |-> Md([severity |-> Num(3)])] >>

UnboundNeText == <<"x", " ", "!=", " ", "5">>
UnboundEqNullText == <<"x", " ", "==", " ", "null">>
NotUnboundText == <<"not", " ", "x">>
AbsentKeyText == <<"market_data", ".", "a", " ", "==", " ", "null">>
AbsentPathText ==
  <<"market_data", ".", "a", ".", "b", " ", "==", " ", "null">>

\* the conditions _evaluate_condition is called with on its own
Conditions ==
  << Text(PriceCheckText), Text(PricePositiveText), Text(NoPriceText),
     Text(DivZeroText), Text(ClearText), Text(GenThrowText),
     Text(UnboundNeText), Text(UnboundEqNullText), Text(NotUnboundText),
     Text(AbsentKeyText), Text(AbsentPathText),
     Text(<<"true">>), Text(<<" ", "True", " ">>), Text(<<"FALSE">>),
     Text(<<"1", " ", "+">>), PyBool(TRUE), Text(<<"_tampered">>) >>

\* the contexts the evaluating thread of the engine passes
EngineContexts == <<Contexts[1], Contexts[2], Contexts[5]>>

\* the rule file: absent, or holding the value yaml.safe_load returns
Absent == [kind |-> "absent"]
File(config) == [kind |-> "file", config |-> config]
RulesFile(elems) == File(PyDict([rules |-> PyList(elems)]))

\* the contents the rule file takes
Sources ==
  << RulesFile(<<RuleEntries[1], RuleEntries[6]>>),
     \* the second entry is null: Rule(None) raises
     RulesFile(<<RuleEntries[4], PyNone, RuleEntries[2]>>),
     Absent,
     File(PyDict([version |-> Num(1)])),
     File(PyDict([rules |-> PyNone])) >>

---------------------------------------------------------------------------
(* load_rules *)

\* line 95: not config or 'rules' not in config
InvalidFormat(config) ==
  IF config.t # "dict" THEN TRUE
  ELSE IF DOMAIN config.items = {} THEN TRUE
  ELSE "rules" \notin DOMAIN config.items

\* lines 88-97: the checks that make load_rules return False before it
\* touches self.rules
RefusedEarly(src) ==
  IF src.kind = "absent" THEN TRUE ELSE InvalidFormat(src.config)

\* AddEntry with a default rule made of an entry that is no mapping
AddEntryDefaultsMalformed(rs, entry) ==
  IF entry.t = "dict" THEN Append(rs, Rule(entry.items))
  ELSE Append(rs, Rule(<<>>))

\* lines 102-107: the list after one entry of config['rules']
AddEntry(rs, entry) ==
  IF entry.t = "dict" THEN Append(rs, Rule(entry.items)) ELSE rs

RECURSIVE ParseEntries(_, _)
ParseEntries(rs, elems) ==
  IF elems = <<>> THEN rs
  ELSE ParseEntries(AddEntry(rs, Head(elems)), Tail(elems))

\* the entries before the first one that is no mapping
RECURSIVE WellFormedPrefix(_)
WellFormedPrefix(elems) ==
  IF elems = <<>> THEN <<>>
  ELSE IF Head(elems).t # "dict" THEN <<>>
  ELSE <<Head(elems)>> \o WellFormedPrefix(Tail(elems))

\* Load without the try of lines 102-107: the first malformed entry ends
\* the call in the handler of line 112
LoadNoEntryGuard(src, old) ==
  IF RefusedEarly(src) THEN [ok |-> FALSE, rules |-> old]
  ELSE IF src.config.items["rules"].t # "list"
  THEN [ok |-> FALSE, rules |-> <<>>]
  ELSE [ok |-> WellFormedPrefix(src.config.items["rules"].elems)
                 = src.config.items["rules"].elems,
        rules |-> ParseEntries(<<>>,
                    WellFormedPrefix(src.config.items["rules"].elems))]

\* load_rules() run with no other thread: the value returned and self.rules
\* afterwards, old being self.rules before
Load(src, old) ==
  IF RefusedEarly(src) THEN [ok |-> FALSE, rules |-> old]
  ELSE IF src.config.items["rules"].t # "list"
  THEN [ok |-> FALSE, rules |-> <<>>]
  ELSE [ok |-> TRUE,
        rules |-> ParseEntries(<<>>, src.config.items["rules"].elems)]

---------------------------------------------------------------------------
(* ComponentMonitor (src/component_monitor.py): the status of a component  *)
(* and the history of the statuses its health checks recorded.  Time is    *)
(* the number of checks the component has had: last_check is that number   *)
(* (0 for None), and a check that succeeds sets last_success to it.  Of    *)
(* ComponentStatus.to_dict the status and the two times are modelled.      *)

ComponentKeys == {"ftso_price_feed", "cmc_api", "fdc_endpoint", "contract_log"}

\* ComponentStatus(name, component_type)
ComponentStatus == [status |-> "unknown", last_check |-> 0, last_success |-> 0]

\* the number of entries _add_to_history keeps for a component
HistoryLimit == 100

\* list[start:]
SliceFrom(list, start) ==
  LET n == Len(list)
      first == IF start < 0 THEN (IF n + start < 0 THEN 0 ELSE n + start)
               ELSE (IF start > n THEN n ELSE start)
  IN SubSeq(list, first + 1, n)

\* _add_to_history(component_key, status_dict): self.status_history after
\* the call
AddToHistory(status_history, component_key, status_dict) ==
  IF component_key \in DOMAIN status_history
  THEN LET appended == Append(status_history[component_key], status_dict) IN
       [status_history EXCEPT ![component_key] =
          IF Len(appended) > HistoryLimit
          THEN SliceFrom(appended, -HistoryLimit)
          ELSE appended]
  ELSE status_history

\* get_component_history(component_key, limit)
GetComponentHistory(status_history, component_key, limit) ==
  IF component_key \in DOMAIN status_history
  THEN SliceFrom(status_history[component_key], -limit)
  ELSE <<>>

\* check_cmc_health: the component after the call, and whether line 160
\* was reached.  cmc_api is "none" (None), "ok" (get_token_info returns
\* data with a price) or "raises" (get_token_info raises)
CmcHealth(component, cmc_api) ==
  LET now == component.last_check + 1 IN
  CASE cmc_api = "none" ->
         [component |-> [component EXCEPT !.last_check = now,
                                          !.status = "offline"],
          recorded |-> FALSE]
    [] cmc_api = "ok" ->
         [component |-> [status |-> "healthy", last_check |-> now,
                         last_success |-> now],
          recorded |-> TRUE]
    [] OTHER ->
         [component |-> [component EXCEPT !.last_check = now,
                                          !.status = "error"],
          recorded |-> TRUE]

\* check_fdc_health: the component after the call (line 199 is always
\* reached).  flare_verifier is "none" (None), "connected"
\* (w3.is_connected() is true) or "down" (it is false)
FdcHealth(component, flare_verifier) ==
  LET now == component.last_check + 1 IN
  CASE flare_verifier = "none" ->
         [component EXCEPT !.last_check = now, !.status = "warning"]
    [] flare_verifier = "connected" ->
         [status |-> "healthy", last_check |-> now, last_success |-> now]
    [] OTHER ->
         [component EXCEPT !.last_check = now, !.status = "offline"]

\* the collaborators ComponentMonitor is constructed with
MonitorConfigs ==
  << [cmc_api |-> "none", flare_verifier |-> "none"],
     [cmc_api |-> "ok", flare_verifier |-> "connected"],
     [cmc_api |-> "raises", flare_verifier |-> "down"] >>

\* the keys and the limits get_component_history is called with
HistoryKeys == {"cmc_api", "fdc_endpoint", "mempool"}
HistoryLimits == {-2, 0, 10, 150}

\* the number of health checks one monitor is given
MaxChecks == 102

---------------------------------------------------------------------------
(* AttackSimulator (src/backend/attack_simulator.py).  analysis_data is a  *)
(* mapping, given as its items; the outcome of a call is the exception     *)
(* that left it ("" for none) and the mapping the call worked on.          *)

\* d[key] = value
SetItem(d, key, value) ==
  [k \in DOMAIN d \cup {key} |-> IF k = key THEN value ELSE d[k]]

\* round(v, 2), ties to even
Round2(v) ==
  LET scaled == NumerOf(v) * 100
      den == DenomOf(v)
      q == scaled \div den
      r == scaled % den
  IN Frac(IF 2 * r > den THEN q + 1
          ELSE IF 2 * r < den THEN q
          ELSE IF q % 2 = 0 THEN q ELSE q + 1, 100)

Done(data, details) == [exc |-> "", data |-> data, details |-> details]
Raised(name, data) == [exc |-> name, data |-> data, details |-> <<>>]

\* _tamper_price(data) when random.uniform(1.2, 1.5) is corruption_factor
TamperPrice(data, corruption_factor) ==
  LET market_data == Get(data, "market_data", PyDict(<<>>)) IN
  \* line 99: .get of a value that is no mapping
  IF market_data.t # "dict" THEN Raised("AttributeError", data)
  ELSE LET original_price == Get(market_data.items, "price", Num(0)) IN
  \* line 103
  IF ~IsNumeric(original_price) THEN Raised("TypeError", data)
  ELSE LET tampered_price ==
             Arithmetic("*", original_price, corruption_factor, <<>>).val
           \* lines 107-108
           priced ==
             IF "market_data" \in DOMAIN data
             THEN SetItem(data, "market_data",
                    PyDict(SetItem(SetItem(market_data.items, "price",
                                           Round2(tampered_price)),
                                   "_original_price", original_price)))
             ELSE data
           market_details ==
             IF "market_data" \in DOMAIN data THEN <<"market_data.price">>
             ELSE <<>>
       IN
       \* line 114: tampered_price / original_price
       IF "market_data" \in DOMAIN data /\ NumerOf(original_price) = 0
       THEN Raised("ZeroDivisionError", priced)
       ELSE IF "ftso_price" \notin DOMAIN data
       THEN Done(priced, market_details)
       \* line 123: abs(tampered_price - ftso_price) / ftso_price
       ELSE IF ~IsNumeric(data["ftso_price"])
       THEN Raised("TypeError", priced)
       ELSE IF NumerOf(data["ftso_price"]) = 0
       THEN Raised("ZeroDivisionError", priced)
       ELSE Done(priced, Append(market_details, "ftso_verification"))

\* _corrupt_sentiment(data)
CorruptSentiment(data) ==
  IF "sentiment_data" \notin DOMAIN data THEN Done(data, <<>>)
  \* line 150
  ELSE IF data["sentiment_data"].t # "dict"
  THEN Raised("AttributeError", data)
  ELSE LET sentiment_data == data["sentiment_data"].items
           original_sentiment == Get(sentiment_data, "overall_sentiment", Num(0))
           positive == Compare(">", original_sentiment, Num(0), <<>>)
       IN
       \* line 153
       IF positive.exc # "" THEN Raised(positive.exc, data)
       ELSE Done(
              SetItem(data, "sentiment_data",
                PyDict(SetItem(SetItem(sentiment_data, "overall_sentiment",
                                 IF positive.val.b THEN Num(-8) ELSE Num(8)),
                               "_original_sentiment", original_sentiment))),
              <<"sentiment_data.overall_sentiment">>)

\* "0x" + "0" * 62 + "FAKE"
FakeHash == Text(<<"0x", "0*62", "FAKE">>)

\* _invalidate_proof(data)
InvalidateProof(data) ==
  LET unverified == SetItem(data, "fdc_verified", PyBool(FALSE)) IN
  IF "verification_hash" \notin DOMAIN data
  THEN Done(unverified, <<"fdc_verification">>)
  ELSE LET original_hash == data["verification_hash"]
           rehashed == SetItem(SetItem(unverified, "verification_hash",
                                       FakeHash),
                               "_original_hash", original_hash)
       IN
       \* line 207: original_hash[:16] + "..."
       IF original_hash.t # "str" THEN Raised("TypeError", rehashed)
       ELSE Done(rehashed, <<"fdc_verification", "verification_hash">>)

\* b applied to what a left, the details of the two joined
Then(a, b) ==
  IF a.exc # "" THEN a
  ELSE IF b.exc # "" THEN b
  ELSE Done(b.data, a.details \o b.details)

\* lines 52-69: the attack that attack_type names, on tampered_data
ApplyAttack(tampered_data, attack_type, corruption_factor) ==
  CASE attack_type = "price_manipulation" ->
         TamperPrice(tampered_data, corruption_factor)
    [] attack_type = "sentiment_corruption" -> CorruptSentiment(tampered_data)
    [] attack_type = "proof_invalidation" -> InvalidateProof(tampered_data)
    [] attack_type = "multi_vector" ->
         LET price == TamperPrice(tampered_data, corruption_factor)
             sent == Then(price, CorruptSentiment(price.data))
         IN Then(sent, InvalidateProof(sent.data))
    [] OTHER -> Done(tampered_data, <<>>)

\* simulate_attack(analysis_data, attack_type): the exception that left the
\* call, the mapping it returned, analysis_data after the call, and the
\* simulator's attack_active and attack_type after the call
SimulateAttack(self, analysis_data, attack_type, corruption_factor) ==
  LET \* line 41: every write below goes to the copy
      tampered_data == analysis_data
      attack == ApplyAttack(tampered_data, attack_type, corruption_factor)
  IN
  IF attack.exc # ""
  THEN [exc |-> attack.exc, returned |-> <<>>, analysis_data |-> analysis_data,
        self |-> self]
  ELSE [exc |-> "",
        returned |->
          SetItem(SetItem(SetItem(SetItem(SetItem(attack.data,
            "_tampered", PyBool(TRUE)),
            "_attack_info", PyDict([attack_type |-> attack_type,
                                    tampering_details |-> attack.details])),
            "verified", PyBool(FALSE)),
            "contract_verified", PyBool(FALSE)),
            "fdc_verified", PyBool(FALSE)),
        analysis_data |-> analysis_data,
        self |-> [attack_active |-> TRUE, attack_type |-> attack_type]]

\* AttackSimulator()
NewSimulator == [attack_active |-> FALSE, attack_type |-> "None"]

\* the values random.uniform(1.2, 1.5) takes
CorruptionFactors == <<Frac(6, 5), Frac(27, 20), Frac(3, 2)>>

AttackTypes ==
  <<"price_manipulation", "sentiment_corruption", "proof_invalidation",
    "multi_vector", "replay">>

\* the analysis data simulate_attack is given
AnalysisInputs ==
  << [market_data |-> Md([price |-> Num(100)]), ftso_price |-> Num(100),
      sentiment_data |-> Md([overall_sentiment |-> Num(3)]),
      verification_hash |-> Text(<<"0xabcdef">>),
      verified |-> PyBool(TRUE), contract_verified |-> PyBool(TRUE),
      fdc_verified |-> PyBool(TRUE)],
     [market_data |-> Md([price |-> Frac(12345, 1000)]),
      sentiment_data |-> Md([overall_sentiment |-> Num(-2)]),
      verified |-> PyBool(TRUE)],
     [market_data |-> Md([price |-> Num(0)]), verified |-> PyBool(TRUE)],
     [market_data |-> Md(<<>>)],
     <<>>,
     [ftso_price |-> Num(0)],
     [market_data |-> Md([price |-> Num(100)]), ftso_price |-> Num(0)],
     [market_data |-> PyNone],
     [sentiment_data |-> Md(<<>>)],
     [verification_hash |-> PyNone] >>

---------------------------------------------------------------------------
(* State *)

VARIABLES
  source,    \* the content of the rule file
  rules,     \* self.rules: the content of the list it refers to now
  lpc,       \* load_rules: "idle", or "loop" inside the for loop
  ltodo,     \* load_rules: the entries the for loop has not reached yet
  lret,      \* the value the last load_rules returned
  complete,  \* history: the Rule Set the last finished load built
  target,    \* history: the Rule Set the load in progress is building
  epc,       \* evaluate_rules: idle, start, loop, return, done, aborted,
             \* hung (inside an eval that never returns)
  ectx0,     \* the context the call was given, as it was given
  eacc,      \* the locals of the call, and the context as it is now
  elist,     \* the content of the list the for loop iterates
  elive,     \* whether that list is still the one self.rules refers to
  eidx,      \* how many rules the for loop has taken
  everdict,  \* the verdict the call returned, once epc is "done"
  eseen,     \* history: the complete Rule Sets the engine held during the call
  lprev,     \* history: self.rules when the last load_rules began
  lread,     \* history: the rule file as the last load_rules found it
  summary,   \* the value the last get_rules_summary returned
  cpc,       \* _evaluate_condition: idle, built (after line 233), done
  ccond,     \* the condition the call was given
  cctx0,     \* the context the call was given, as it was given
  cns,       \* the outcome of the call of _build_namespace
  cout,      \* the outcome of the call of _evaluate_condition
  mcfg,      \* ComponentMonitor: the collaborators it was constructed with
  components,      \* self.components
  status_history,  \* self.status_history
  mlog,      \* history: per component, every status _add_to_history was given
  hcall,     \* the last get_component_history call and what it returned,
             \* no health check made since
  simulator, \* AttackSimulator: attack_active and attack_type
  acall,     \* the last call made of the simulator
  aout,      \* the outcome of the last simulate_attack since the last reset
  areply     \* the value the last is_attack_active returned

vars == <<source, rules, lpc, ltodo, lret, complete, target,
          epc, ectx0, eacc, elist, elive, eidx, everdict, eseen,
          lprev, lread, summary, cpc, ccond, cctx0, cns, cout,
          mcfg, components, status_history, mlog, hcall,
          simulator, acall, aout, areply>>

loaderVars == <<lpc, ltodo, lret, complete, target, lprev, lread>>
evalVars == <<epc, ectx0, eacc, elist, elive, eidx, everdict, eseen>>
condVars == <<summary, cpc, ccond, cctx0, cns, cout>>
engineVars == <<source, rules, loaderVars, evalVars, condVars>>
monitorVars == <<mcfg, components, status_history, mlog, hcall>>
attackVars == <<simulator, acall, aout, areply>>

\* the value of summary before get_rules_summary was called
NoSummary == [total_rules |-> -1]

\* no call of _evaluate_condition was made on its own
CondIdle ==
  /\ summary = NoSummary
  /\ cpc = "idle"
  /\ ccond = PyNone
  /\ cctx0 = <<>>
  /\ cns = [exc |-> "", ns |-> <<>>]
  /\ cout = [exc |-> "", val |-> FALSE, ctx |-> <<>>]

\* the value of hcall while no call of get_component_history is the last
\* call made of the monitor
NoHistoryCall == [component_key |-> "", limit |-> 0, returned |-> <<>>]

\* no monitor was constructed
MonitorIdle ==
  /\ mcfg = [cmc_api |-> "none", flare_verifier |-> "none"]
  /\ components = [key \in ComponentKeys |-> ComponentStatus]
  /\ status_history = [key \in ComponentKeys |-> <<>>]
  /\ mlog = [key \in ComponentKeys |-> <<>>]
  /\ hcall = NoHistoryCall

NoAttackCall == [op |-> "", analysis_data |-> <<>>, attack_type |-> ""]

\* the value of aout while no simulate_attack was called since the simulator
\* was constructed or reset
NoOutcome ==
  [exc |-> "", returned |-> <<>>, analysis_data |-> <<>>, self |-> NewSimulator]

\* the simulator after AttackSimulator()
SimulatorIdle ==
  /\ simulator = NewSimulator
  /\ acall = NoAttackCall
  /\ aout = NoOutcome
  /\ areply = FALSE

AddSeen(seen, rs) ==
  IF \E i \in 1..Len(seen) : seen[i] = rs THEN seen ELSE Append(seen, rs)

InFlight == epc \in {"start", "loop", "return"}

\* the engine after RulesEngine(rules_file), the file holding Sources[s]
Init ==
  /\ MonitorIdle
  /\ SimulatorIdle
  /\ \E s \in 1..Len(Sources) :
       /\ source = Sources[s]
       /\ rules = Load(Sources[s], <<>>).rules
       /\ lret = Load(Sources[s], <<>>).ok
       /\ complete = Load(Sources[s], <<>>).rules
       /\ target = Load(Sources[s], <<>>).rules
       /\ lread = Sources[s]
  /\ lprev = <<>>
  /\ CondIdle
  /\ lpc = "idle"
  /\ ltodo = <<>>
  /\ epc = "idle"
  /\ ectx0 = <<>>
  /\ eacc = StartEval(<<>>)
  /\ elist = <<>>
  /\ elive = FALSE
  /\ eidx = 0
  /\ everdict = NoRulesVerdict
  /\ eseen = <<>>

---------------------------------------------------------------------------
(* Actions *)

\* the rule file is rewritten
WriteSource(s) ==
  /\ source # Sources[s]
  /\ source' = Sources[s]
  /\ UNCHANGED <<rules, loaderVars, evalVars, condVars>>
  /\ UNCHANGED <<monitorVars, attackVars>>

\* reload_rules -> load_rules, lines 85-97: the file is missing or has no
\* 'rules' key, and the call returns False
ReloadRefused ==
  /\ lpc = "idle"
  /\ RefusedEarly(source)
  /\ lret' = FALSE
  /\ lprev' = rules
  /\ lread' = source
  /\ UNCHANGED <<source, rules, lpc, ltodo, complete, target, evalVars,
                 condVars>>
  /\ UNCHANGED <<monitorVars, attackVars>>

\* ReloadBegin without line 100: the loop appends to the list in use
ReloadBeginNoReset ==
  /\ lpc = "idle"
  /\ ~RefusedEarly(source)
  /\ lprev' = rules
  /\ lread' = source
  /\ LET value == source.config.items["rules"] IN
     IF value.t = "list"
     THEN /\ lpc' = "loop"
          /\ ltodo' = value.elems
          /\ target' = ParseEntries(<<>>, value.elems)
          /\ eseen' = IF InFlight
                      THEN AddSeen(eseen, ParseEntries(<<>>, value.elems))
                      ELSE eseen
          /\ UNCHANGED <<lret, complete>>
     ELSE /\ lret' = FALSE
          /\ target' = <<>>
          /\ UNCHANGED <<lpc, ltodo, complete, eseen>>
  /\ UNCHANGED <<source, rules, epc, ectx0, eacc, elist, elive, eidx,
                 everdict, condVars>>
  /\ UNCHANGED <<monitorVars, attackVars>>

\* reload_rules -> load_rules, lines 85-101: self.rules = [] and the for
\* loop is entered; iter(config['rules']) raising ends the call with False
ReloadBegin ==
  /\ lpc = "idle"
  /\ ~RefusedEarly(source)
  /\ rules' = <<>>
  /\ elive' = FALSE
  /\ lprev' = rules
  /\ lread' = source
  /\ LET value == source.config.items["rules"] IN
     IF value.t = "list"
     THEN /\ lpc' = "loop"
          /\ ltodo' = value.elems
          /\ target' = ParseEntries(<<>>, value.elems)
          /\ eseen' = IF InFlight
                      THEN AddSeen(eseen, ParseEntries(<<>>, value.elems))
                      ELSE eseen
          /\ UNCHANGED <<lret, complete>>
     ELSE /\ lret' = FALSE
          /\ complete' = <<>>
          /\ target' = <<>>
          /\ eseen' = IF InFlight THEN AddSeen(eseen, <<>>) ELSE eseen
          /\ UNCHANGED <<lpc, ltodo>>
  /\ UNCHANGED <<source, epc, ectx0, eacc, elist, eidx, everdict, condVars>>
  /\ UNCHANGED <<monitorVars, attackVars>>

\* lines 101-107: one entry of config['rules']
LoadEntry ==
  /\ lpc = "loop"
  /\ ltodo # <<>>
  /\ rules' = AddEntry(rules, Head(ltodo))
  /\ elist' = IF elive THEN AddEntry(elist, Head(ltodo)) ELSE elist
  /\ ltodo' = Tail(ltodo)
  /\ UNCHANGED <<source, lpc, lret, complete, target, lprev, lread,
                 epc, ectx0, eacc, elive, eidx, everdict, eseen, condVars>>
  /\ UNCHANGED <<monitorVars, attackVars>>

\* lines 109-110: the for loop is over and the call returns True
ReloadEnd ==
  /\ lpc = "loop"
  /\ ltodo = <<>>
  /\ lpc' = "idle"
  /\ lret' = TRUE
  /\ complete' = target
  /\ UNCHANGED <<source, rules, ltodo, target, lprev, lread, evalVars,
                 condVars>>
  /\ UNCHANGED <<monitorVars, attackVars>>

\* evaluate_rules(EngineContexts[c]), lines 127-143: the test of self.rules
EvalBegin(c) ==
  /\ epc \in {"idle", "done", "aborted"}
  /\ ectx0' = EngineContexts[c]
  /\ eacc' = StartEval(EngineContexts[c])
  /\ eseen' = IF lpc = "loop" THEN AddSeen(<<complete>>, target)
              ELSE <<complete>>
  /\ elist' = <<>>
  /\ elive' = FALSE
  /\ eidx' = 0
  /\ everdict' = NoRulesVerdict
  /\ epc' = IF rules = <<>> THEN "done" ELSE "start"
  /\ UNCHANGED <<source, rules, loaderVars, condVars>>
  /\ UNCHANGED <<monitorVars, attackVars>>

\* line 146: the for loop takes an iterator over the list self.rules
\* refers to
EvalIter ==
  /\ epc = "start"
  /\ elist' = rules
  /\ elive' = TRUE
  /\ epc' = "loop"
  /\ UNCHANGED <<source, rules, loaderVars, ectx0, eacc, eidx, everdict, eseen,
                 condVars>>
  /\ UNCHANGED <<monitorVars, attackVars>>

\* lines 146-174: the iterator yields the next rule and the body runs
EvalNext ==
  /\ epc = "loop"
  /\ eidx < Len(elist)
  /\ eacc' = EvalStep(eacc, elist[eidx + 1])
  /\ eidx' = eidx + 1
  \* an exception leaves evaluate_rules
  /\ epc' = IF eacc'.exc = "" THEN "loop"
            ELSE IF eacc'.exc = Hang THEN "hung" ELSE "aborted"
  /\ UNCHANGED <<elist, elive>>
  /\ UNCHANGED <<source, rules, loaderVars, ectx0, everdict, eseen, condVars>>
  /\ UNCHANGED <<monitorVars, attackVars>>

\* line 146: the iterator is exhausted; lines 176-184
EvalExit ==
  /\ epc = "loop"
  /\ eidx >= Len(elist)
  /\ epc' = "return"
  /\ UNCHANGED <<source, rules, loaderVars, ectx0, eacc, elist, elive, eidx,
                 everdict, eseen, condVars>>
  /\ UNCHANGED <<monitorVars, attackVars>>

\* lines 186-195: the return statement reads len(self.rules)
EvalReturn ==
  /\ epc = "return"
  /\ everdict' = Verdict(eacc, Len(rules))
  /\ epc' = "done"
  /\ eacc' = StartEval(eacc.ctx)
  /\ elist' = <<>>
  /\ elive' = FALSE
  /\ eidx' = 0
  /\ UNCHANGED <<source, rules, loaderVars, ectx0, eseen, condVars>>
  /\ UNCHANGED <<monitorVars, attackVars>>

Next ==
  \/ \E s \in 1..Len(Sources) : WriteSource(s)
  \/ ReloadRefused
  \/ ReloadBegin
  \/ LoadEntry
  \/ ReloadEnd
  \/ \E c \in 1..Len(EngineContexts) : EvalBegin(c)
  \/ EvalIter
  \/ EvalNext
  \/ EvalExit
  \/ EvalReturn

\* one RulesEngine, a thread that reloads it and a thread that evaluates
Spec == Init /\ [][Next]_vars

---------------------------------------------------------------------------
(* evaluate_rules as a function of the Rule Set and the context: an engine *)
(* that holds an enumerated Rule Set and is called once, no reload running *)

InitEval ==
  /\ MonitorIdle
  /\ SimulatorIdle
  /\ \E idx \in RuleSetIndices :
       /\ source = RulesFile([i \in 1..Len(idx) |-> RuleEntries[idx[i]]])
       /\ rules = RulesOf(idx)
       /\ complete = RulesOf(idx)
       /\ target = RulesOf(idx)
       /\ lread = RulesFile([i \in 1..Len(idx) |-> RuleEntries[idx[i]]])
  /\ lprev = <<>>
  /\ CondIdle
  /\ \E c \in 1..Len(Contexts) :
       /\ ectx0 = Contexts[c]
       /\ eacc = StartEval(Contexts[c])
  /\ lpc = "idle"
  /\ ltodo = <<>>
  /\ lret = TRUE
  /\ epc = "idle"
  /\ elist = <<>>
  /\ elive = FALSE
  /\ eidx = 0
  /\ everdict = NoRulesVerdict
  /\ eseen = <<>>

\* evaluate_rules(ectx0), the whole call
Evaluate ==
  /\ epc = "idle"
  /\ everdict' = EvaluateRules(rules, ectx0).verdict
  /\ eacc' = [StartEval(EvaluateRules(rules, ectx0).ctx)
                EXCEPT !.exc = EvaluateRules(rules, ectx0).exc]
  /\ epc' = IF eacc'.exc = "" THEN "done"
            ELSE IF eacc'.exc = Hang THEN "hung" ELSE "aborted"
  /\ eseen' = <<rules>>
  \* the namespace line 233 builds when the first rule is evaluated
  /\ cns' = IF rules = <<>> THEN cns ELSE BuildNamespace(ectx0)
  /\ UNCHANGED <<source, rules, loaderVars, ectx0, elist, elive, eidx,
                 summary, cpc, ccond, cctx0, cout>>
  /\ UNCHANGED <<monitorVars, attackVars>>

\* get_rules_summary(), the whole call
GetRulesSummary ==
  /\ summary = NoSummary
  /\ summary' = RulesSummary(rules)
  /\ UNCHANGED <<source, rules, loaderVars, evalVars, cpc, ccond, cctx0, cns,
                 cout>>
  /\ UNCHANGED <<monitorVars, attackVars>>

NextEval == Evaluate \/ GetRulesSummary

SpecEval == InitEval /\ [][NextEval]_vars

---------------------------------------------------------------------------
(* _evaluate_condition as a function of the condition and the context: one *)
(* call, in the two steps of its body                                       *)

InitCond ==
  /\ MonitorIdle
  /\ SimulatorIdle
  /\ source = Absent
  /\ rules = <<>>
  /\ lpc = "idle"
  /\ ltodo = <<>>
  /\ lret = FALSE
  /\ complete = <<>>
  /\ target = <<>>
  /\ lprev = <<>>
  /\ lread = Absent
  /\ epc = "idle"
  /\ ectx0 = <<>>
  /\ eacc = StartEval(<<>>)
  /\ elist = <<>>
  /\ elive = FALSE
  /\ eidx = 0
  /\ everdict = NoRulesVerdict
  /\ eseen = <<>>
  /\ summary = NoSummary
  /\ cpc = "idle"
  /\ \E k \in 1..Len(Conditions) : ccond = Conditions[k]
  /\ \E c \in 1..Len(Contexts) : cctx0 = Contexts[c]
  /\ cns = [exc |-> "", ns |-> <<>>]
  /\ cout = [exc |-> "", val |-> FALSE, ctx |-> <<>>]

\* line 233: namespace = self._build_namespace(context)
CondBuild ==
  /\ cpc = "idle"
  /\ cns' = BuildNamespace(cctx0)
  /\ cpc' = "built"
  /\ UNCHANGED <<source, rules, loaderVars, evalVars, summary, ccond, cctx0,
                 cout>>
  /\ UNCHANGED <<monitorVars, attackVars>>

\* lines 236-252, or the exception of line 233 leaving the call
CondDecide ==
  /\ cpc = "built"
  /\ cout' = WithNamespace(cns, ccond, cctx0)
  /\ cpc' = "done"
  /\ UNCHANGED <<source, rules, loaderVars, evalVars, summary, ccond, cctx0,
                 cns>>
  /\ UNCHANGED <<monitorVars, attackVars>>

NextCond == CondBuild \/ CondDecide

SpecCond == InitCond /\ [][NextCond]_vars

\* no RulesEngine was constructed
EngineIdle ==
  /\ source = Absent
  /\ rules = <<>>
  /\ lpc = "idle"
  /\ ltodo = <<>>
  /\ lret = FALSE
  /\ complete = <<>>
  /\ target = <<>>
  /\ lprev = <<>>
  /\ lread = Absent
  /\ epc = "idle"
  /\ ectx0 = <<>>
  /\ eacc = StartEval(<<>>)
  /\ elist = <<>>
  /\ elive = FALSE
  /\ eidx = 0
  /\ everdict = NoRulesVerdict
  /\ eseen = <<>>
  /\ CondIdle

---------------------------------------------------------------------------
(* One ComponentMonitor: health checks of the CMC API and of the FDC       *)
(* endpoint, and get_component_history                                      *)

InitMonitor ==
  /\ EngineIdle
  /\ SimulatorIdle
  /\ \E m \in 1..Len(MonitorConfigs) : mcfg = MonitorConfigs[m]
  /\ components = [key \in ComponentKeys |-> ComponentStatus]
  /\ status_history = [key \in ComponentKeys |-> <<>>]
  /\ mlog = [key \in ComponentKeys |-> <<>>]
  /\ hcall = NoHistoryCall

\* the number of health checks made so far
ChecksMade ==
  components["cmc_api"].last_check + components["fdc_endpoint"].last_check

\* check_cmc_health(), the whole call
CheckCmcHealth ==
  /\ ChecksMade < MaxChecks
  /\ components' = [components EXCEPT !["cmc_api"] =
                      CmcHealth(@, mcfg.cmc_api).component]
  /\ IF CmcHealth(components["cmc_api"], mcfg.cmc_api).recorded
     THEN /\ status_history' =
               AddToHistory(status_history, "cmc_api", components'["cmc_api"])
          /\ mlog' = [mlog EXCEPT !["cmc_api"] =
                        Append(@, components'["cmc_api"])]
     ELSE UNCHANGED <<status_history, mlog>>
  /\ hcall' = NoHistoryCall
  /\ UNCHANGED <<mcfg, engineVars, attackVars>>

\* check_fdc_health(), the whole call
CheckFdcHealth ==
  /\ ChecksMade < MaxChecks
  /\ components' = [components EXCEPT !["fdc_endpoint"] =
                      FdcHealth(@, mcfg.flare_verifier)]
  /\ status_history' =
       AddToHistory(status_history, "fdc_endpoint", components'["fdc_endpoint"])
  /\ mlog' = [mlog EXCEPT !["fdc_endpoint"] =
                Append(@, components'["fdc_endpoint"])]
  /\ hcall' = NoHistoryCall
  /\ UNCHANGED <<mcfg, engineVars, attackVars>>

\* get_component_history(component_key, limit), the whole call
GetHistory(component_key, limit) ==
  /\ hcall' = [component_key |-> component_key, limit |-> limit,
               returned |->
                 GetComponentHistory(status_history, component_key, limit)]
  /\ UNCHANGED <<mcfg, components, status_history, mlog, engineVars,
                 attackVars>>

NextMonitor ==
  \/ CheckCmcHealth
  \/ CheckFdcHealth
  \/ \E component_key \in HistoryKeys, limit \in HistoryLimits :
       GetHistory(component_key, limit)

SpecMonitor == InitMonitor /\ [][NextMonitor]_vars

---------------------------------------------------------------------------
(* One AttackSimulator: simulate_attack, reset_simulation, is_attack_active *)

InitAttack ==
  /\ EngineIdle
  /\ MonitorIdle
  /\ SimulatorIdle

\* simulate_attack(AnalysisInputs[d], AttackTypes[a]), the whole call, when
\* random.uniform returns CorruptionFactors[f]
Simulate(d, a, f) ==
  /\ acall' = [op |-> "simulate_attack", analysis_data |-> AnalysisInputs[d],
               attack_type |-> AttackTypes[a]]
  /\ aout' = SimulateAttack(simulator, AnalysisInputs[d], AttackTypes[a],
                            CorruptionFactors[f])
  /\ simulator' = aout'.self
  /\ UNCHANGED <<areply, engineVars, monitorVars>>

\* reset_simulation(), the whole call
ResetSimulation ==
  /\ simulator' = NewSimulator
  /\ acall' = [NoAttackCall EXCEPT !.op = "reset_simulation"]
  /\ aout' = NoOutcome
  /\ UNCHANGED <<areply, engineVars, monitorVars>>

\* is_attack_active(), the whole call
IsAttackActive ==
  /\ areply' = simulator.attack_active
  /\ acall' = [acall EXCEPT !.op = "is_attack_active"]
  /\ UNCHANGED <<simulator, aout, engineVars, monitorVars>>

NextAttack ==
  \/ \E d \in 1..Len(AnalysisInputs), a \in 1..Len(AttackTypes),
        f \in 1..Len(CorruptionFactors) : Simulate(d, a, f)
  \/ ResetSimulation
  \/ IsAttackActive

SpecAttack == InitAttack /\ [][NextAttack]_vars

---------------------------------------------------------------------------
(* Properties of the verdict *)

Results == everdict.results

Failed(i) == ~Results[i].passed

\* C1: for an empty Rule Set evaluate_rules returns overall_status =
\* no_rules, should_block = false, all four counts 0 and an empty results
\* list, whatever the context.
C1_EmptyRuleSet ==
  (epc = "done" /\ rules = <<>>) =>
    /\ everdict.overall_status = "no_rules"
    /\ everdict.should_block = FALSE
    /\ everdict.rules_evaluated = 0
    /\ everdict.rules_passed = 0
    /\ everdict.rules_failed = 0
    /\ everdict.critical_failures = 0
    /\ everdict.results = <<>>

C1_Witness ==
  /\ epc = "done"
  /\ rules = <<>>
  /\ ectx0 = Contexts[2]
  /\ everdict.overall_status = "no_rules"

\* C2: for a non-empty Rule Set, should_block is true exactly when some
\* rule whose result has passed = false has action reject.
C2_ShouldBlockIff ==
  (epc = "done" /\ rules # <<>>) =>
    (everdict.should_block <=>
       \E i \in 1..Len(Results) : Failed(i) /\ Results[i].action = "reject")

C2_Witness ==
  /\ epc = "done"
  /\ everdict.should_block
  /\ \E i \in 1..Len(Results) : ~Failed(i) /\ Results[i].action = "reject"
  /\ \E i \in 1..Len(Results) :
       /\ Failed(i)
       /\ Results[i].action = "reject"
       /\ Results[i].severity \in {"medium", "low"}

\* C3: critical_failures is the number of rules whose result has passed =
\* false, whose action is reject and whose severity is critical or high.
C3_CriticalFailures ==
  epc = "done" =>
    everdict.critical_failures =
      Cardinality({i \in 1..Len(Results) :
                     /\ Failed(i)
                     /\ Results[i].action = "reject"
                     /\ Results[i].severity \in {"critical", "high"}})

C3_Witness ==
  /\ epc = "done"
  /\ everdict.critical_failures = 1
  /\ \E i \in 1..Len(Results) :
       /\ Failed(i)
       /\ Results[i].action = "reject"
       /\ Results[i].severity = "high"
  /\ \E i \in 1..Len(Results) :
       /\ Failed(i)
       /\ Results[i].action = "warn"
       /\ Results[i].severity = "critical"

FailedRejectCritical(i) ==
  /\ Failed(i)
  /\ Results[i].action = "reject"
  /\ Results[i].severity = "critical"

FailedWarn(i) == Failed(i) /\ Results[i].action = "warn"

\* C4: for a non-empty Rule Set overall_status is critical_failure when
\* critical_failures > 0, else blocked when should_block, else warnings
\* when rules_failed > 0, else passed; and a failing reject/critical rule
\* beside a failing warn rule gives critical_failure with should_block.
C4_StatusPrecedence ==
  (epc = "done" /\ rules # <<>>) =>
    /\ everdict.overall_status =
         IF everdict.critical_failures > 0 THEN "critical_failure"
         ELSE IF everdict.should_block THEN "blocked"
         ELSE IF everdict.rules_failed > 0 THEN "warnings"
         ELSE "passed"
    /\ (\E i, j \in 1..Len(Results) : FailedRejectCritical(i) /\ FailedWarn(j))
         => (everdict.overall_status = "critical_failure"
             /\ everdict.should_block)

C4_Witness ==
  /\ epc = "done"
  /\ \E i, j \in 1..Len(Results) : FailedRejectCritical(i) /\ FailedWarn(j)
  /\ everdict.overall_status = "critical_failure"

OnlyWarnRules == rules # <<>> /\ \A i \in 1..Len(rules) : rules[i].action = "warn"

\* C5: when every rule of a non-empty Rule Set has action warn,
\* should_block is false, and overall_status is warnings when a rule
\* fails and passed when none does.
C5_WarnNeverBlocks ==
  (epc = "done" /\ OnlyWarnRules) =>
    /\ everdict.should_block = FALSE
    /\ everdict.overall_status =
         IF everdict.rules_failed > 0 THEN "warnings" ELSE "passed"

C5_Witness ==
  /\ epc = "done"
  /\ OnlyWarnRules
  /\ \E i \in 1..Len(Results) : Failed(i) /\ Results[i].severity = "critical"
  /\ everdict.overall_status = "warnings"

\* whether eval() of the condition raises an Exception in the namespace
\* built from ctx
ConditionRaises(condition, ctx) ==
  IF condition.t # "str" THEN FALSE
  ELSE IF Lower(Strip(condition.toks)) \in {<<"true">>, <<"false">>} THEN FALSE
  ELSE IF BuildNamespace(ctx).exc # "" THEN FALSE
  ELSE IsException(Eval(Parse(Strip(condition.toks)),
                        BuildNamespace(ctx).ns, ctx).exc)

\* C6: the result of a rule whose condition raises during evaluation has
\* passed = false and a non-null error, and the rule is counted in
\* rules_failed.  Stated for the first rule of the Rule Set, which is
\* evaluated in the context as the caller passed it.
C6_RaisingConditionReportsError ==
  (epc = "done" /\ rules # <<>> /\ ConditionRaises(rules[1].condition, ectx0)) =>
    /\ Results[1].passed = FALSE
    /\ Results[1].error # NoError
    /\ everdict.rules_failed >= 1

Without(seq, i) == SubSeq(seq, 1, i - 1) \o SubSeq(seq, i + 1, Len(seq))

\* C7: evaluate_rules returns normally with one result per rule, and the
\* results of the rules beside a failing rule are those the call gives
\* with the failing rule left out of the Rule Set.
C7_FailureIsolation ==
  /\ epc # "aborted"
  /\ epc = "done" =>
       /\ Len(Results) = Len(rules)
       /\ \A i \in 1..Len(Results) :
            Failed(i) =>
              /\ EvaluateRules(Without(rules, i), ectx0).exc = ""
              /\ EvaluateRules(Without(rules, i), ectx0).verdict.results
                   = Without(Results, i)

\* C8: a rule whose condition text is "true" in any letter case passes, and
\* one whose condition text is "false" fails, for every context.
C8_LiteralShortcuts ==
  epc = "done" =>
    \A i \in 1..Len(Results) :
      rules[i].condition.t = "str" =>
        /\ Lower(rules[i].condition.toks) = <<"true">> => Results[i].passed
        /\ Lower(rules[i].condition.toks) = <<"false">> => ~Results[i].passed

RuleKey(rule) == <<rule.name, rule.type, rule.action, rule.severity>>

ResultKey(res) == <<res.rule_name, res.type, res.action, res.severity>>

\* C9: the results of an evaluation that runs while reload_rules replaces
\* Rule Set A by Rule Set B are those of exactly the rules of A or exactly
\* the rules of B (eseen holds A and B).
C9_ReloadIsAtomic ==
  epc = "done" =>
    \E k \in 1..Len(eseen) :
      [i \in 1..Len(Results) |-> ResultKey(Results[i])]
        = [i \in 1..Len(eseen[k]) |-> RuleKey(eseen[k][i])]

Orderings(n) ==
  {p \in [1..n -> 1..n] : \A i, j \in 1..n : p[i] = p[j] => i = j}

Aggregate(v) ==
  <<v.overall_status, v.should_block, v.rules_passed, v.rules_failed,
    v.critical_failures>>

\* C10: every permutation of the Rule Set gives the same overall_status,
\* should_block, rules_passed, rules_failed and critical_failures for the
\* same context.
C10_OrderIndependence ==
  epc = "done" =>
    \A p \in Orderings(Len(rules)) :
      /\ EvaluateRules([i \in 1..Len(rules) |-> rules[p[i]]], ectx0).exc = ""
      /\ Aggregate(EvaluateRules([i \in 1..Len(rules) |-> rules[p[i]]],
                                 ectx0).verdict)
           = Aggregate(everdict)
---------------------------------------------------------------------------
(* Properties of the namespace and of the condition evaluator *)

\* a numeric oracle price, and a market_data mapping whose price is numeric
\* or absent
HasPrices(ctx) ==
  IF ~("ftso_price" \in DOMAIN ctx /\ "market_data" \in DOMAIN ctx) THEN FALSE
  ELSE IF ctx["ftso_price"].t # "num" \/ ctx["market_data"].t # "dict" THEN FALSE
  ELSE IF "price" \notin DOMAIN ctx["market_data"].items THEN TRUE
  ELSE ctx["market_data"].items["price"].t = "num"

DeclaredPositive(ctx) ==
  IF "price" \notin DOMAIN ctx["market_data"].items THEN FALSE
  ELSE ctx["market_data"].items["price"].n > 0

\* v = abs(f - d) / d * 100 for the rationals v, f and d, d > 0
IsDeviation(v, f, d) ==
  v.n * (f.den * d.den * d.n)
    = v.den * 100 * Abs(f.n * d.den - d.n * f.den) * d.den

\* C11: with oracle price ftso_price and declared price market_data.price,
\* _build_namespace binds ftso_price_diff_pct to
\* abs(ftso_price - declared) / declared * 100 when declared > 0, and to
\* 100.0 when declared <= 0 or the declared price is absent.
C11_PriceDeviation ==
  (cpc # "idle" /\ HasPrices(cctx0)) =>
    /\ cns.exc = ""
    /\ "ftso_price_diff_pct" \in DOMAIN cns.ns
    /\ cns.ns["ftso_price_diff_pct"].t = "num"
    /\ IF DeclaredPositive(cctx0)
       THEN IsDeviation(cns.ns["ftso_price_diff_pct"], cctx0["ftso_price"],
                        cctx0["market_data"].items["price"])
       ELSE cns.ns["ftso_price_diff_pct"].n
              = 100 * cns.ns["ftso_price_diff_pct"].den

C11_Witness ==
  /\ cpc = "built"
  /\ cctx0 = Contexts[12]
  /\ cns.exc = ""
  /\ cns.ns["ftso_price_diff_pct"].n = 3920 * cns.ns["ftso_price_diff_pct"].den

\* the Rule Set of the end-to-end scenario
PriceCheckRules == <<Rule(RuleEntries[1].items)>>

DiffPct == cns.ns["ftso_price_diff_pct"]

CriticalVerdict ==
  /\ Failed(1)
  /\ everdict.overall_status = "critical_failure"
  /\ everdict.should_block
  /\ everdict.rules_failed = 1

\* C12: with ftso_price 100 and declared price 102 ftso_price_diff_pct is
\* 2.0; with declared price 105 it is 5.0, the single reject/critical rule
\* "ftso_price_diff_pct <= 2.0" fails and the verdict is critical_failure,
\* should_block = true, rules_failed = 1.
C12_WorkedExamples ==
  (epc = "done" /\ rules = PriceCheckRules) =>
    /\ ectx0 = Contexts[1] => DiffPct.n = 2 * DiffPct.den
    /\ ectx0 = Contexts[2] => (DiffPct.n = 5 * DiffPct.den /\ CriticalVerdict)

\* C12, amended: with declared price 102 ftso_price_diff_pct is
\* 2 / 102 * 100 = 100/51 (about 1.96); with declared price 105 it is
\* 5 / 105 * 100 = 100/21 (about 4.76), the rule fails and the verdict is
\* critical_failure, should_block = true, rules_failed = 1.
C12_WorkedExamplesByDeclared ==
  (epc = "done" /\ rules = PriceCheckRules) =>
    /\ ectx0 = Contexts[1] => 51 * DiffPct.n = 100 * DiffPct.den
    /\ ectx0 = Contexts[2] =>
         (21 * DiffPct.n = 100 * DiffPct.den /\ CriticalVerdict)

C12_Witness ==
  /\ epc = "done"
  /\ rules = PriceCheckRules
  /\ ectx0 = Contexts[2]
  /\ 21 * DiffPct.n = 100 * DiffPct.den
  /\ CriticalVerdict

\* C13: an identifier without a binding in the namespace evaluates as a
\* null-like value: for an unbound x the conditions "x != 5", "x == null"
\* and "not x" evaluate to true.
C13_UnboundIsNull ==
  (/\ cpc = "done"
   /\ ccond \in {Text(UnboundNeText), Text(UnboundEqNullText),
                 Text(NotUnboundText)}
   /\ cns.exc = ""
   /\ "x" \notin DOMAIN cns.ns) =>
    (cout.exc = "" /\ cout.val = TRUE)

\* market_data is a mapping without the key a, and the namespace was built
LacksKeyA ==
  IF cns.exc # "" \/ "market_data" \notin DOMAIN cctx0 THEN FALSE
  ELSE IF cctx0["market_data"].t # "dict" THEN FALSE
  ELSE "a" \notin DOMAIN cctx0["market_data"].items

\* C14: dotted access into a nested mapping yields the null-like value
\* when a key on the path is absent, an intermediate key included:
\* "market_data.a == null" and "market_data.a.b == null" evaluate to true
\* when market_data has no key a.
C14_AbsentPathIsNull ==
  (/\ cpc = "done"
   /\ ccond \in {Text(AbsentKeyText), Text(AbsentPathText)}
   /\ LacksKeyA) =>
    (cout.exc = "" /\ cout.val = TRUE)

\* C18: evaluating a condition, whatever its text, calls nothing and
\* mutates nothing: the context is afterwards what the caller passed, and
\* no exception thrown by a call made from the condition leaves the
\* evaluator.
C18_ConditionHasNoEffect ==
  cpc = "done" => (cout.ctx = cctx0 /\ cout.exc # "BaseException")
---------------------------------------------------------------------------
(* Properties of load_rules: lprev is the Rule Set before the last load,   *)
(* lread the rule file it found, lret the value it returned                *)

\* the rule file is there and holds no recognizable rule collection: no
\* 'rules' key, or a 'rules' value that is not a list
StructurallyInvalid(src) ==
  IF src.kind = "absent" THEN FALSE
  ELSE IF InvalidFormat(src.config) THEN TRUE
  ELSE src.config.items["rules"].t # "list"

LoadFailed == lpc = "idle" /\ lret = FALSE

\* C15: a load on an engine holding a non-empty Rule Set, from a
\* structurally invalid source, returns failure and leaves the engine with
\* exactly the previous Rule Set.
C15_InvalidSourceKeepsRules ==
  (lpc = "idle" /\ lprev # <<>> /\ StructurallyInvalid(lread)) =>
    (lret = FALSE /\ rules = lprev)

NextVerdictIsNoRules ==
  \A c \in 1..Len(EngineContexts) :
    EvaluateRules(rules, EngineContexts[c]).verdict.overall_status = "no_rules"

\* C16: whenever a load fails as a whole, at construction or at reload,
\* the engine is left with an empty Rule Set and the next evaluate_rules
\* returns overall_status = no_rules.
C16_FailedLoadLeavesEmpty ==
  LoadFailed => (rules = <<>> /\ NextVerdictIsNoRules)

\* C16, amended: whenever a load fails as a whole at construction, or at
\* reload of an engine that holds an empty Rule Set, the engine is left
\* with an empty Rule Set and the next evaluate_rules returns no_rules.
C16_FailedLoadOnEmptyLeavesEmpty ==
  (LoadFailed /\ lprev = <<>>) => (rules = <<>> /\ NextVerdictIsNoRules)

C16_Witness ==
  /\ LoadFailed
  /\ lprev = <<>>
  /\ StructurallyInvalid(lread)
  /\ rules = <<>>
  /\ epc = "done"
  /\ everdict.overall_status = "no_rules"

\* the rule file holds a list under 'rules'
IsRuleList(src) ==
  IF src.kind = "absent" THEN FALSE
  ELSE IF InvalidFormat(src.config) THEN FALSE
  ELSE src.config.items["rules"].t = "list"

WellFormedEntry(entry) == entry.t = "dict"

WellFormedEntries(src) ==
  SelectSeq(src.config.items["rules"].elems, WellFormedEntry)

\* C17: a load from a rule list with malformed entries succeeds, and the
\* Rule Set is then exactly the well-formed entries in declaration order.
C17_MalformedEntriesSkipped ==
  (lpc = "idle" /\ IsRuleList(lread)) =>
    /\ lret = TRUE
    /\ rules = [i \in 1..Len(WellFormedEntries(lread)) |->
                  Rule(WellFormedEntries(lread)[i].items)]

C17_Witness ==
  /\ lpc = "idle"
  /\ lread = Sources[2]
  /\ lprev # <<>>
  /\ lret = TRUE
  /\ Len(rules) = 2
  /\ rules[1].name = "div_zero"
  /\ rules[2].name = "price_positive"
---------------------------------------------------------------------------
(* Properties of the loaded rules and of the frame of the read operations *)

\* the entries of the rule file the Rule Set was loaded from
LoadedEntries == lread.config.items["rules"].elems

Omits(i, field) == field \notin DOMAIN LoadedEntries[i].items

\* C19: a rule entry that omits a field loads with the default for it
\* (action warn, severity medium, condition "true"); a rule loaded without
\* a condition passes, and a rule loaded without an action never sets
\* should_block.
C19_DefaultsForOmittedFields ==
  /\ Len(rules) = Len(LoadedEntries)
  /\ \A i \in 1..Len(rules) :
       /\ Omits(i, "action") => rules[i].action = "warn"
       /\ Omits(i, "severity") => rules[i].severity = "medium"
       /\ Omits(i, "condition") => rules[i].condition = Text(<<"true">>)
       /\ (epc = "done" /\ Omits(i, "condition")) => Results[i].passed
  /\ (epc = "done" /\ \A i \in 1..Len(rules) : Omits(i, "action"))
       => ~everdict.should_block

\* evaluate_rules or get_rules_summary has returned (or was left by an
\* exception)
ReadCallMade == epc \in {"done", "aborted", "hung"} \/ summary # NoSummary

\* C20: evaluate_rules and get_rules_summary change neither the Rule Set
\* nor the caller's context: after the calls the Rule Set is the loaded one
\* and the context, nested mappings included, is what it was before.
C20_ReadOperationsChangeNothing ==
  ReadCallMade => (rules = complete /\ eacc.ctx = ectx0)
---------------------------------------------------------------------------
(* Further properties of the namespace *)

\* the internal markers the modelled contexts carry
MarkerKeys == {"_tampered", "_attack_info"}

\* C21: _build_namespace binds every top-level context key that does not
\* start with '_' and none that does (_tampered, _attack_info), so a
\* condition that names such a key does not read its value.
C21_MarkerKeysNotBound ==
  /\ (cpc # "idle" /\ cns.exc = "") =>
       \A key \in DOMAIN cctx0 :
         (key \in DOMAIN cns.ns) <=> (key \notin MarkerKeys)
  /\ (/\ cpc = "done"
      /\ cns.exc = ""
      /\ ccond = Text(<<"_tampered">>)
      /\ "_tampered" \in DOMAIN cctx0) =>
       (cout.exc = "" /\ cout.val = FALSE)

C21_Witness ==
  /\ cpc = "done"
  /\ cctx0 = Contexts[13]
  /\ ccond = Text(<<"_tampered">>)
  /\ "timestamp" \in DOMAIN cns.ns
  /\ "_attack_info" \notin DOMAIN cns.ns
  /\ cout.val = FALSE

DiffKey == "ftso_price_diff_pct"

\* the context holds an oracle price and a market_data entry
HasBothKeys(ctx) == "ftso_price" \in DOMAIN ctx /\ "market_data" \in DOMAIN ctx

\* the context holds an oracle price and a nested declared price
HasBothPrices(ctx) ==
  IF ~HasBothKeys(ctx) THEN FALSE
  ELSE IF ctx["market_data"].t # "dict" THEN FALSE
  ELSE "price" \in DOMAIN ctx["market_data"].items

ReferencesDiff == ccond = Text(PriceCheckText)

\* C22: ftso_price_diff_pct is computed only when the context holds both an
\* oracle price and market_data.price; in every other case, market_data
\* without a price key included, the namespace has no ftso_price_diff_pct
\* and a rule that references it fails.
C22_DeviationOnlyWithBothPrices ==
  (cns.exc = "" /\ ~HasBothPrices(cctx0)) =>
    /\ cpc # "idle" => DiffKey \notin DOMAIN cns.ns
    /\ (cpc = "done" /\ ReferencesDiff) => cout.val = FALSE

\* C22, amended: ftso_price_diff_pct is computed exactly when the context
\* holds both ftso_price and market_data, with 100.0 for a market_data
\* without a price key; in every other case the engine computes none: the
\* name is bound only to an entry of that name the context itself holds,
\* and a rule that references it fails when the context holds none.
C22_DeviationOnlyWithBothKeys ==
  (cpc # "idle" /\ cns.exc = "") =>
    IF HasBothKeys(cctx0)
    THEN /\ DiffKey \in DOMAIN cns.ns
         /\ ~HasBothPrices(cctx0) => cns.ns[DiffKey] = Num(100)
    ELSE IF DiffKey \in DOMAIN cctx0
    THEN cns.ns[DiffKey] = cctx0[DiffKey]
    ELSE /\ DiffKey \notin DOMAIN cns.ns
         /\ (cpc = "done" /\ ReferencesDiff) => cout.val = FALSE

C22_Witness ==
  /\ cpc = "done"
  /\ cctx0 = Contexts[4]
  /\ ReferencesDiff
  /\ DiffKey \notin DOMAIN cns.ns
  /\ cout.val = FALSE
---------------------------------------------------------------------------
(* Further properties of the verdict *)

\* C23: for a non-empty Rule Set of n rules and no concurrent reload the
\* verdict has rules_evaluated = n = length of results = rules_passed +
\* rules_failed, and results[i] carries the name, action and severity of
\* the i-th rule.
C23_VerdictCountsAndOrder ==
  (epc = "done" /\ rules # <<>>) =>
    /\ everdict.rules_evaluated = Len(rules)
    /\ Len(Results) = Len(rules)
    /\ everdict.rules_passed + everdict.rules_failed = Len(rules)
    /\ \A i \in 1..Len(rules) :
         /\ Results[i].rule_name = rules[i].name
         /\ Results[i].action = rules[i].action
         /\ Results[i].severity = rules[i].severity

C23_Witness ==
  /\ epc = "done"
  /\ Len(rules) = 2
  /\ rules[1].name = "never"
  /\ rules[2].name = "always"
  /\ Failed(1)
  /\ ~Failed(2)
  /\ everdict.rules_evaluated = 2

\* C25: evaluate_rules terminates for every Rule Set and context: a
\* condition of excessive nesting or pathological size makes its rule fail
\* and never makes the call crash (an exception leaves it) or hang (an
\* eval that never returns).
C25_EvaluateTerminates ==
  /\ epc \notin {"aborted", "hung"}
  /\ epc = "done" =>
       \A i \in 1..Len(Results) :
         rules[i].condition = Text(DeepNestingText) => Failed(i)
---------------------------------------------------------------------------
(* Further properties of reload_rules and of calls that overlap it *)

LoadSucceeded == lpc = "idle" /\ lret = TRUE

Declares(src, rule) ==
  \E j \in 1..Len(src.config.items["rules"].elems) :
    /\ src.config.items["rules"].elems[j].t = "dict"
    /\ Rule(src.config.items["rules"].elems[j].items) = rule

\* C24: after a successful reload the Rule Set is exactly the rules of the
\* new source in declaration order, no rule of the previous Rule Set
\* remains unless the new source declares it, and a reload repeated on the
\* unchanged source leaves the Rule Set equal.
C24_ReloadReplaces ==
  LoadSucceeded =>
    /\ rules = [i \in 1..Len(WellFormedEntries(lread)) |->
                  Rule(WellFormedEntries(lread)[i].items)]
    /\ \A i \in 1..Len(lprev) :
         (\E k \in 1..Len(rules) : rules[k] = lprev[i])
           => Declares(lread, lprev[i])
    /\ Load(lread, rules) = [ok |-> TRUE, rules |-> rules]

C24_Witness ==
  /\ LoadSucceeded
  /\ lprev = Load(Sources[1], <<>>).rules
  /\ lread = Sources[2]
  /\ Len(rules) = 2
  /\ \A i \in 1..Len(lprev) : \A k \in 1..Len(rules) : rules[k] # lprev[i]

\* the call overlapped a reload from a non-empty Rule Set A to a non-empty
\* Rule Set B (eseen holds A and B)
OverlappedReload ==
  /\ Len(eseen) = 2
  /\ eseen[1] # <<>>
  /\ eseen[2] # <<>>

WouldBlock(rs, ctx) == EvaluateRules(rs, ctx).verdict.should_block

\* C28: an evaluate_rules call that overlaps a reload from a non-empty
\* Rule Set A to a non-empty Rule Set B never returns no_rules, and never
\* returns should_block = false for a context both A and B block.
C28_NoFailOpenWindow ==
  (epc = "done" /\ OverlappedReload) =>
    /\ everdict.overall_status # "no_rules"
    /\ (WouldBlock(eseen[1], ectx0) /\ WouldBlock(eseen[2], ectx0))
         => everdict.should_block

\* C29: in every verdict returned, also when reload_rules runs between two
\* steps of the call, rules_evaluated equals the length of results and
\* rules_passed + rules_failed.
C29_EvaluatedCountsResults ==
  epc = "done" =>
    /\ everdict.rules_evaluated = Len(Results)
    /\ everdict.rules_evaluated
         = everdict.rules_passed + everdict.rules_failed

\* the context without the entry key
WithoutKey(ctx, key) == [k \in DOMAIN ctx \ {key} |-> ctx[k]]

\* C30: a context entry named ftso_price_diff_pct does not influence the
\* result of any rule, whatever else the context holds: the verdict is the
\* one the call gives for the context without that entry.
C30_SuppliedDeviationIgnored ==
  (epc = "done" /\ DiffKey \in DOMAIN ectx0) =>
    /\ EvaluateRules(rules, WithoutKey(ectx0, DiffKey)).exc = ""
    /\ EvaluateRules(rules, WithoutKey(ectx0, DiffKey)).verdict = everdict

---------------------------------------------------------------------------
(* The status history of ComponentMonitor *)

\* the last n elements of list
LastOf(list, n) == SubSeq(list, Len(list) - n + 1, Len(list))

Smaller(a, b) == IF a < b THEN a ELSE b

\* get_component_history is the last call made of the monitor
HistoryCallMade == hcall # NoHistoryCall

\* C26: after any sequence of health checks every status_history list has
\* at most 100 entries, which are the most recent statuses recorded for the
\* component, oldest first; get_component_history(key, limit) returns the
\* last min(limit, length) of them, and an empty list for an unknown key.
C26_HistoryKeepsLast100 ==
  /\ \A key \in ComponentKeys :
       /\ Len(status_history[key]) <= 100
       /\ status_history[key] = LastOf(mlog[key], Smaller(100, Len(mlog[key])))
  /\ HistoryCallMade =>
       hcall.returned =
         IF hcall.component_key \in ComponentKeys
         THEN LastOf(status_history[hcall.component_key],
                     Smaller(hcall.limit,
                             Len(status_history[hcall.component_key])))
         ELSE <<>>

---------------------------------------------------------------------------
(* The attack simulator *)

\* simulate_attack was called since the simulator was constructed or reset
AttackSimulated == aout # NoOutcome

\* C27: for every analysis_data and every attack_type simulate_attack
\* returns tampered data with verified = contract_verified = fdc_verified =
\* False and _tampered = True, leaves the analysis_data it was passed
\* unchanged, and attack_active is True until reset_simulation.
C27_AttackForcesFailure ==
  AttackSimulated =>
    /\ aout.exc = ""
    /\ \A key \in {"verified", "contract_verified", "fdc_verified"} :
         /\ key \in DOMAIN aout.returned
         /\ aout.returned[key] = PyBool(FALSE)
    /\ "_tampered" \in DOMAIN aout.returned
    /\ aout.returned["_tampered"] = PyBool(TRUE)
    /\ aout.analysis_data = acall.analysis_data
    /\ simulator.attack_active
    /\ acall.op = "is_attack_active" => areply

====
